---- MODULE Spec2Model ----
(***************************************************************************)
(* Model of src/app.py: the OSM road network -> Scratch coordinate system  *)
(* converter (a Streamlit script).                                          *)
(*                                                                          *)
(* Units.  Degrees are integers in units of 1e-4 degree (the resolution of  *)
(* the presets of the script), Scratch coordinates are integers in          *)
(* hundredths (the two decimals round(_, 2) keeps), edge lengths are        *)
(* integers in millimetres and distances integers in centimetres.  The      *)
(* arithmetic is exact rational arithmetic with Python's round-half-even;   *)
(* binary floating point error is not modelled.                             *)
(***************************************************************************)
EXTENDS Integers, Sequences, FiniteSets, TLC

VARIABLES
    pc,                \* position of the script inside the button handler
    north, south, east, west,   \* the sidebar inputs of the current run
    G,                 \* the downloaded graph (None before / on failure)
    nodes_df, edges_df,         \* the converted tables
    simple_map_image, map_image,\* the two generated images
    node_csv, edge_csv,         \* the serialised tables
    page,              \* the elements the run has put on the page, in order
    downloads,         \* number of upstream graph downloads issued by the run
    call               \* last direct call of a pure function (SpecFn only)

vars == <<pc, north, south, east, west, G, nodes_df, edges_df,
          simple_map_image, map_image, node_csv, edge_csv, page,
          downloads, call>>

handlerVars == <<pc, north, south, east, west, G, nodes_df, edges_df,
                 simple_map_image, map_image, node_csv, edge_csv, page,
                 downloads>>

-----------------------------------------------------------------------------
(* Program constants                                                       *)

SCRATCH_WIDTH == 480
SCRATCH_HEIGHT == 360
SCRATCH_X_MIN == -240
SCRATCH_X_MAX == 240
SCRATCH_Y_MIN == -180
SCRATCH_Y_MAX == 180
MAX_NODES == 5000
MAX_EDGES == 15000

\* 0.002 square degrees, in (1e-4 degree)^2
AREA_LIMIT == 200000

None == [tag |-> "None"]

-----------------------------------------------------------------------------
(* Arithmetic helpers                                                      *)

Abs(v) == IF v < 0 THEN -v ELSE v

\* Python's round(): the integer nearest to num/den, ties to the even one.
RoundHalfEven(num, den) ==
    LET n == IF den < 0 THEN -num ELSE num
        d == IF den < 0 THEN -den ELSE den
        q == n \div d
        r == n % d
    IN  IF 2 * r < d THEN q
        ELSE IF 2 * r > d THEN q + 1
        ELSE IF q % 2 = 0 THEN q ELSE q + 1

\* round(v, 2) of the rational v = <<num, den>>, in hundredths.
Round2(v) == RoundHalfEven(100 * v[1], v[2])

\* lo + norm * (hi - lo) for the rational norm = <<num, den>>.
Scale(lo, hi, norm) == <<lo * norm[2] + norm[1] * (hi - lo), norm[2]>>

-----------------------------------------------------------------------------
(* latlon_to_scratch                                                       *)

\* The variant that clamps the normalised value into 0..1.
latlon_to_scratch_clamped(lat, lon, bounds) ==
    LET n == bounds[1]
        s == bounds[2]
        e == bounds[3]
        w == bounds[4]
        Clamp(v) == IF v[1] * v[2] < 0 THEN <<0, 1>>
                    ELSE IF Abs(v[1]) > Abs(v[2]) THEN <<1, 1>> ELSE v
        x_norm == IF (e - w) # 0 THEN Clamp(<<lon - w, e - w>>) ELSE <<1, 2>>
        y_norm == IF (n - s) # 0 THEN Clamp(<<n - lat, n - s>>) ELSE <<1, 2>>
    IN  <<Round2(Scale(SCRATCH_X_MIN, SCRATCH_X_MAX, x_norm)),
          Round2(Scale(SCRATCH_Y_MIN, SCRATCH_Y_MAX, y_norm))>>

\* The variant whose zero-width fallback is 0 instead of the midpoint 0.5.
latlon_to_scratch_zero_fallback(lat, lon, bounds) ==
    LET n == bounds[1]
        s == bounds[2]
        e == bounds[3]
        w == bounds[4]
        x_norm == IF (e - w) # 0 THEN <<lon - w, e - w>> ELSE <<0, 1>>
        y_norm == IF (n - s) # 0 THEN <<n - lat, n - s>> ELSE <<0, 1>>
    IN  <<Round2(Scale(SCRATCH_X_MIN, SCRATCH_X_MAX, x_norm)),
          Round2(Scale(SCRATCH_Y_MIN, SCRATCH_Y_MAX, y_norm))>>

latlon_to_scratch(lat, lon, bounds) ==
    LET n == bounds[1]
        s == bounds[2]
        e == bounds[3]
        w == bounds[4]
        x_norm == IF (e - w) # 0 THEN <<lon - w, e - w>> ELSE <<1, 2>>
        y_norm == IF (n - s) # 0 THEN <<n - lat, n - s>> ELSE <<1, 2>>
        x_scratch == Scale(SCRATCH_X_MIN, SCRATCH_X_MAX, x_norm)
        y_scratch == Scale(SCRATCH_Y_MIN, SCRATCH_Y_MAX, y_norm)
    IN  <<Round2(x_scratch), Round2(y_scratch)>>

-----------------------------------------------------------------------------
(* Tables (pandas DataFrame) and graphs (networkx MultiDiGraph)            *)

\* pd.DataFrame(list of dicts): the columns are the keys of the dicts, so a
\* table built from an empty list has no columns at all.
DataFrame(rows, cols) ==
    [columns |-> IF Len(rows) = 0 THEN <<>> ELSE cols, rows |-> rows]

HasColumn(df, c) == \E i \in 1..Len(df.columns) : df.columns[i] = c

\* round(lat, 6): the value in units of 1e-6 degree (exact at the model's
\* resolution of 1e-4 degree).
Round6(deg) == RoundHalfEven(deg * 1000, 10)

\* data.get('length', 0)
GetLength(data) == IF "length" \in DOMAIN data THEN data.length ELSE 0

\* round(distance, 2): millimetres to centimetres.
RoundDistance(mm) == RoundHalfEven(mm, 10)

\* The variant that numbers the nodes from 0 (enumerate without start=1).
RECURSIVE NodeIdMap_zero_based(_, _, _)
NodeIdMap_zero_based(nodes, lo, hi) ==
    IF lo > hi THEN <<>>
    ELSE IF lo = hi THEN nodes[lo].id :> (lo - 1)
    ELSE LET mid == (lo + hi) \div 2
         IN  NodeIdMap_zero_based(nodes, mid + 1, hi)
                 @@ NodeIdMap_zero_based(nodes, lo, mid)

\* node_id_map after the node loop has run over nodes[lo..hi]: every
\* node_id_map[osm_id] = i of the loop, a later assignment to a key replacing
\* an earlier one.  (The loop is unrolled by halves to keep the recursion
\* shallow on graphs of MAX_NODES nodes.)
RECURSIVE NodeIdMap(_, _, _)
NodeIdMap(nodes, lo, hi) ==
    IF lo > hi THEN <<>>
    ELSE IF lo = hi THEN nodes[lo].id :> lo
    ELSE LET mid == (lo + hi) \div 2
         IN  NodeIdMap(nodes, mid + 1, hi) @@ NodeIdMap(nodes, lo, mid)

\* The variant that appends only the forward row of each edge.
convert_to_scratch_format_forward_only(graph, bounds) ==
    LET n == Len(graph.nodes)
        m == Len(graph.edges)
        node_id_map == NodeIdMap(graph.nodes, 1, n)
        nodes_data == [i \in 1..n |->
            LET xy == latlon_to_scratch(graph.nodes[i].y, graph.nodes[i].x, bounds)
            IN  [ID |-> i, X |-> xy[1], Y |-> xy[2],
                 Latitude |-> Round6(graph.nodes[i].y),
                 Longitude |-> Round6(graph.nodes[i].x),
                 OSM_ID |-> graph.nodes[i].id]]
        edges_data == [k \in 1..m |->
            [FromID |-> node_id_map[graph.edges[k].u],
             ToID |-> node_id_map[graph.edges[k].v],
             Distance |-> RoundDistance(GetLength(graph.edges[k].data))]]
    IN  [nodes_df |-> DataFrame(nodes_data,
             <<"ID", "X", "Y", "Latitude", "Longitude", "OSM_ID">>),
         edges_df |-> DataFrame(edges_data, <<"FromID", "ToID", "Distance">>)]

\* convert_to_scratch_format(G, bounds): the node loop numbers the nodes 1..n
\* in iteration order and fills node_id_map; the edge loop appends, for the
\* k-th edge of G.edges(data=True), the forward row and then the reverse row.
convert_to_scratch_format(graph, bounds) ==
    LET n == Len(graph.nodes)
        m == Len(graph.edges)
        node_id_map == NodeIdMap(graph.nodes, 1, n)
        nodes_data == [i \in 1..n |->
            LET xy == latlon_to_scratch(graph.nodes[i].y, graph.nodes[i].x, bounds)
            IN  [ID |-> i, X |-> xy[1], Y |-> xy[2],
                 Latitude |-> Round6(graph.nodes[i].y),
                 Longitude |-> Round6(graph.nodes[i].x),
                 OSM_ID |-> graph.nodes[i].id]]
        edges_data == [k \in 1..(2 * m) |->
            LET e == graph.edges[(k + 1) \div 2]
                from_id == node_id_map[e.u]
                to_id == node_id_map[e.v]
                distance == GetLength(e.data)
            IN  IF k % 2 = 1
                THEN [FromID |-> from_id, ToID |-> to_id,
                      Distance |-> RoundDistance(distance)]
                ELSE [FromID |-> to_id, ToID |-> from_id,
                      Distance |-> RoundDistance(distance)]]
    IN  [nodes_df |-> DataFrame(nodes_data,
             <<"ID", "X", "Y", "Latitude", "Longitude", "OSM_ID">>),
         edges_df |-> DataFrame(edges_data, <<"FromID", "ToID", "Distance">>)]

-----------------------------------------------------------------------------
(* Images (PIL) and the two image generators                               *)

Image(width, height, content) ==
    [width |-> width, height |-> height, content |-> content]

\* img.resize((w, h), LANCZOS)
Resize(img, w, h) == [img EXCEPT !.width = w, !.height = h]

\* plt.savefig(..., bbox_inches='tight', pad_inches=0) crops to the drawn
\* artists: the size of the PNG it writes is not fixed by the figure size.
RawSizes == {<<480, 360>>, <<463, 347>>}

\* What the plotting library does during one call of
\* generate_simple_map_image: it raises somewhere, or it renders a PNG.
SimpleEnvs ==
    {[plot_ok |-> FALSE, raw |-> <<0, 0>>]}
    \cup {[plot_ok |-> TRUE, raw |-> r] : r \in RawSizes}

\* The variant that returns the saved PNG without resizing it.
generate_simple_map_image_no_resize(nodes, edges, env) ==
    IF env.plot_ok
    THEN [img |-> Image(env.raw[1], env.raw[2], "roads"),
          msgs |-> <<>>, raised |-> FALSE]
    ELSE [img |-> Image(480, 360, "blank"),
          msgs |-> <<"error:image">>, raised |-> FALSE]

\* generate_simple_map_image(nodes_df, edges_df): the try block ends in
\* Image.open(buf).resize((480, 360)); any exception is reported and answered
\* with Image.new('RGB', (480, 360)).
generate_simple_map_image(nodes, edges, env) ==
    IF env.plot_ok
    THEN [img |-> Resize(Image(env.raw[1], env.raw[2], "roads"), 480, 360),
          msgs |-> <<>>, raised |-> FALSE]
    ELSE [img |-> Image(480, 360, "blank"),
          msgs |-> <<"error:image">>, raised |-> FALSE]

\* What the environment does during one call of generate_map_image_safe:
\* the optional imports fail; or building the GeoDataFrame / the figure
\* raises; or the tiles load or not and then rendering raises or yields a
\* PNG.  Every failure hands over to generate_simple_map_image, with its own
\* environment.
MapEnvs ==
    {[imports_ok |-> FALSE, build_ok |-> FALSE, tiles_ok |-> FALSE,
      render_ok |-> FALSE, raw |-> <<0, 0>>, simple |-> se] : se \in SimpleEnvs}
    \cup
    {[imports_ok |-> TRUE, build_ok |-> FALSE, tiles_ok |-> FALSE,
      render_ok |-> FALSE, raw |-> <<0, 0>>, simple |-> se] : se \in SimpleEnvs}
    \cup
    {[imports_ok |-> TRUE, build_ok |-> TRUE, tiles_ok |-> t,
      render_ok |-> FALSE, raw |-> <<0, 0>>, simple |-> se] :
        t \in BOOLEAN, se \in SimpleEnvs}
    \cup
    {[imports_ok |-> TRUE, build_ok |-> TRUE, tiles_ok |-> t,
      render_ok |-> TRUE, raw |-> r,
      simple |-> [plot_ok |-> FALSE, raw |-> <<0, 0>>]] :
        t \in BOOLEAN, r \in RawSizes}

\* generate_map_image_safe(nodes_df, edges_df, bounds)
generate_map_image_safe(nodes, edges, bounds, env) ==
    LET simple == generate_simple_map_image(nodes, edges, env.simple)
        tiles == IF env.tiles_ok THEN <<>> ELSE <<"warning:tiles">>
    IN  IF ~env.imports_ok
        THEN [img |-> simple.img,
              msgs |-> <<"warning:dependencies">> \o simple.msgs,
              raised |-> FALSE]
        ELSE IF ~env.build_ok
        THEN [img |-> simple.img,
              msgs |-> <<"warning:map_generation">> \o simple.msgs,
              raised |-> FALSE]
        ELSE IF ~env.render_ok
        THEN [img |-> simple.img,
              msgs |-> tiles \o <<"warning:map_generation">> \o simple.msgs,
              raised |-> FALSE]
        ELSE [img |-> Resize(Image(env.raw[1], env.raw[2],
                                   IF env.tiles_ok THEN "roads+basemap"
                                   ELSE "roads+plain"), 480, 360),
              msgs |-> tiles, raised |-> FALSE]

-----------------------------------------------------------------------------
(* download_osm_data_safe                                                  *)

\* The variant whose generic handler is missing: an exception that is no
\* ImportError leaves the function.
download_osm_data_safe_no_catch(outcome) ==
    IF outcome.kind = "ImportError"
    THEN [G |-> None, msgs |-> <<"error:osmnx_missing">>, raised |-> FALSE]
    ELSE IF outcome.kind = "ok"
    THEN [G |-> outcome.graph, msgs |-> <<"info:timeout">>, raised |-> FALSE]
    ELSE [G |-> None, msgs |-> <<"info:timeout">>, raised |-> TRUE]

\* download_osm_data_safe(polygon, network_type): outcome is what
\* `import osmnx` and ox.graph_from_polygon do.
download_osm_data_safe(outcome) ==
    IF outcome.kind = "ImportError"
    THEN [G |-> None, msgs |-> <<"error:osmnx_missing">>, raised |-> FALSE]
    ELSE IF outcome.kind = "ok"
    THEN [G |-> outcome.graph, msgs |-> <<"info:timeout">>, raised |-> FALSE]
    ELSE IF outcome.kind = "timeout"
    THEN [G |-> None, msgs |-> <<"info:timeout", "error:timed_out">>,
          raised |-> FALSE]
    ELSE IF outcome.kind = "http"
    THEN [G |-> None, msgs |-> <<"info:timeout", "error:network">>,
          raised |-> FALSE]
    ELSE [G |-> None, msgs |-> <<"info:timeout", "error:download">>,
          raised |-> FALSE]

-----------------------------------------------------------------------------
(* Inputs                                                                  *)

\* presets["Tokyo Tower Area (Small)"] = (north, south, east, west)
TokyoTower == <<356595, 356575, 1397465, 1397445>>

\* Bounds of the model.
MaxLatOff == 2       \* latitudes of direct calls: MaxLatOff + 1 grid lines
MaxLonOff == 8       \* longitudes of direct calls: west + 0..MaxLonOff
MaxFnNodes == 2      \* nodes of the graphs handed to a direct conversion
MaxFnEdges == 2      \* edges of the graphs handed to a direct conversion

\* OSM node ids are arbitrary distinct integers, in no particular order.
OsmId(i) == IF i % 2 = 1 THEN 100000 + i ELSE 100000 - i

\* The i-th node of a graph downloaded for the box b: a point of the box.
NodeAt(i, b) == [id |-> OsmId(i),
                 y |-> b[2] + ((7 * i) % (Abs(b[1] - b[2]) + 1)),
                 x |-> b[4] + ((11 * i) % (Abs(b[3] - b[4]) + 1))]

\* Edge attribute dictionaries: with a length (millimetres) or without one.
EdgeData == {[osmid |-> 1],
             [osmid |-> 1, length |-> 12345],
             [osmid |-> 1, length |-> 8014]}

FnEdges(n) == [u : {OsmId(i) : i \in 1..n}, v : {OsmId(i) : i \in 1..n},
               data : EdgeData]

SeqsUpTo(S, len) == UNION {[1..l -> S] : l \in 0..len}

\* Every graph with 1..MaxFnNodes nodes and at most MaxFnEdges edges; parallel
\* edges, opposite edges and self-loops included (a MultiDiGraph has them).
FnGraphs == UNION {{[nodes |-> [i \in 1..n |-> NodeAt(i, TokyoTower)], edges |-> es] :
                       es \in SeqsUpTo(FnEdges(n), MaxFnEdges)} : n \in 1..MaxFnNodes}

\* Latitudes south + 0, 3, 7, 12, ... and longitudes west + 0, 1, 2, ...: both
\* give boxes 7 units wide, where the remap is not a whole number of
\* hundredths and round(_, 2) has to round.
FnLats == {TokyoTower[2] + ((o * (o + 5)) \div 2) : o \in 0..MaxLatOff}
FnLons == {TokyoTower[4] + o : o \in 0..MaxLonOff}

NoCall == [fn |-> "none"]

-----------------------------------------------------------------------------
(* Direct calls of the pure functions                                      *)

\* The calls to make: every point and box over FnLats x FnLons, degenerate
\* and inverted boxes included, and every graph of FnGraphs.
FnCalls ==
    {[fn |-> "latlon_to_scratch", lat |-> lat, lon |-> lon,
      bounds |-> <<n, s, e, w>>, done |-> FALSE, ret |-> None] :
        lat \in FnLats, lon \in FnLons, n \in FnLats, s \in FnLats,
        e \in FnLons, w \in FnLons}
    \cup
    {[fn |-> "convert_to_scratch_format", G |-> g, bounds |-> TokyoTower,
      done |-> FALSE, ret |-> None] : g \in FnGraphs}

InitFn ==
    /\ pc = "idle"
    /\ north = TokyoTower[1] /\ south = TokyoTower[2]
    /\ east = TokyoTower[3] /\ west = TokyoTower[4]
    /\ G = None /\ nodes_df = None /\ edges_df = None
    /\ simple_map_image = None /\ map_image = None
    /\ node_csv = None /\ edge_csv = None
    /\ page = <<>>
    /\ downloads = 0
    /\ call \in FnCalls

CallLatlonToScratch ==
    /\ call.fn = "latlon_to_scratch" /\ ~call.done
    /\ call' = [call EXCEPT !.done = TRUE,
                    !.ret = latlon_to_scratch(call.lat, call.lon, call.bounds)]
    /\ UNCHANGED handlerVars

CallConvertToScratchFormat ==
    /\ call.fn = "convert_to_scratch_format" /\ ~call.done
    /\ call' = [call EXCEPT !.done = TRUE,
                    !.ret = convert_to_scratch_format(call.G, call.bounds)]
    /\ UNCHANGED handlerVars

NextFn == CallLatlonToScratch \/ CallConvertToScratchFormat

SpecFn == InitFn /\ [][NextFn]_vars

-----------------------------------------------------------------------------
(* The button handler                                                      *)

\* The value of the number inputs when the script starts ("Custom").
CustomDefault == <<353600, 353500, 1395600, 1395500>>

\* The boxes the user enters: valid ones (a preset, the defaults, one whose
\* area is exactly 0.002 square degrees), one that is too large, and the
\* invalid ones with north <= south or east <= west.  The box of area 0.002
\* is one for which the floating point product of the script does not
\* exceed 0.002 either (35.6975, 35.6575, 139.6000, 139.5500 gives
\* 0.0019999999999992754), so that the exact product of the model and the
\* product the script computes are on the same side of the limit.
Boxes ==
    {CustomDefault, TokyoTower,
     <<356975, 356575, 1396000, 1395500>>,
     <<356975, 356575, 1397955, 1397445>>,
     <<356575, 356595, 1397465, 1397445>>,
     <<356575, 356575, 1397465, 1397445>>,
     <<356595, 356575, 1397445, 1397465>>,
     <<356595, 356575, 1397445, 1397445>>,
     <<356575, 356595, 1397445, 1397465>>}

\* lat_diff * lon_diff
area_size(n, s, e, w) == Abs(n - s) * Abs(e - w)

\* A graph of n nodes and m edges for the box b: edge j goes from node j to
\* node j+1 (cyclically), so that two nodes and two edges are a two-way
\* street listed in both directions; every third edge has no length.
MkGraph(n, m, b) ==
    [nodes |-> [i \in 1..n |-> NodeAt(i, b)],
     edges |-> [j \in 1..m |->
                   [u |-> OsmId(((j - 1) % n) + 1),
                    v |-> OsmId((j % n) + 1),
                    data |-> IF j % 3 = 0 THEN [osmid |-> j]
                             ELSE [osmid |-> j, length |-> 12345 + j]]]]

\* Sizes (nodes, edges) of the graphs the download returns for the box b: an
\* isolated node, small networks, the smallest graphs over each limit and,
\* for a box of the largest admitted area, the largest graph the limits
\* admit.
GraphSizes(b) ==
    {<<1, 0>>, <<2, 1>>, <<2, 2>>, <<MAX_NODES + 1, 1>>, <<2, MAX_EDGES + 1>>}
    \cup (IF area_size(b[1], b[2], b[3], b[4]) = AREA_LIMIT
          THEN {<<MAX_NODES, MAX_EDGES>>} ELSE {})

DownloadOutcomes(b) ==
    {[kind |-> k, graph |-> None] :
        k \in {"ImportError", "timeout", "http", "other"}}
    \cup {[kind |-> "ok", graph |-> MkGraph(sz[1], sz[2], b)] : sz \in GraphSizes(b)}

\* The variant of the guards that lacks the area size check.
InputErrors_no_area_check(n, s, e, w) ==
    IF n <= s THEN <<"error:north_south">>
    ELSE IF e <= w THEN <<"error:east_west">>
    ELSE <<>>

\* The variant of the input validation that compares with < instead of <=.
InputErrors_strict(n, s, e, w) ==
    IF n < s THEN <<"error:north_south">>
    ELSE IF e < w THEN <<"error:east_west">>
    ELSE IF area_size(n, s, e, w) > AREA_LIMIT THEN <<"error:area", "info:area">>
    ELSE <<>>

\* The input validation and the area size check: what is put on the page
\* before st.stop(), or nothing if the inputs pass.
InputErrors(n, s, e, w) ==
    IF n <= s THEN <<"error:north_south">>
    ELSE IF e <= w THEN <<"error:east_west">>
    ELSE IF area_size(n, s, e, w) > AREA_LIMIT THEN <<"error:area", "info:area">>
    ELSE <<>>

\* The variant of the data size check that forgets the edges.
SizeErrors_nodes_only(graph) ==
    IF Len(graph.nodes) > MAX_NODES
    THEN <<"error:too_many_nodes", "info:smaller_area">>
    ELSE <<>>

\* The data size check: what is put on the page before st.stop(), or nothing
\* if the graph passes.
SizeErrors(graph) ==
    LET num_nodes == Len(graph.nodes)
        num_edges == Len(graph.edges)
    IN  IF num_nodes > MAX_NODES
        THEN <<"error:too_many_nodes", "info:smaller_area">>
        ELSE IF num_edges > MAX_EDGES
        THEN <<"error:too_many_edges", "info:smaller_area">>
        ELSE <<>>

\* df[cols]: the table restricted to cols (KeyError if one is missing).
HasColumns(df, cols) == \A j \in 1..Len(cols) : HasColumn(df, cols[j])

\* df.to_csv(index=False): the header line, then one line per row with the
\* values in column order.
to_csv(df, cols) ==
    <<cols>> \o [i \in 1..Len(df.rows) |->
                    [j \in 1..Len(cols) |-> df.rows[i][cols[j]]]]

NodeCsvColumns == <<"ID", "X", "Y", "Latitude", "Longitude">>

Init ==
    /\ pc = "idle"
    /\ north = CustomDefault[1] /\ south = CustomDefault[2]
    /\ east = CustomDefault[3] /\ west = CustomDefault[4]
    /\ G = None /\ nodes_df = None /\ edges_df = None
    /\ simple_map_image = None /\ map_image = None
    /\ node_csv = None /\ edge_csv = None
    /\ page = <<>>
    /\ downloads = 0
    /\ call = NoCall

\* The user sets the sidebar inputs and presses the start button: the script
\* reruns from the top with an empty page.
Press ==
    /\ pc \in {"idle", "done", "stopped"}
    /\ \E b \in Boxes :
        /\ north' = b[1] /\ south' = b[2] /\ east' = b[3] /\ west' = b[4]
    /\ pc' = "validate"
    /\ G' = None /\ nodes_df' = None /\ edges_df' = None
    /\ simple_map_image' = None /\ map_image' = None
    /\ node_csv' = None /\ edge_csv' = None
    /\ page' = <<>>
    /\ downloads' = 0
    /\ UNCHANGED call

\* Input validation and area size check.
Validate ==
    /\ pc = "validate"
    /\ LET errs == InputErrors(north, south, east, west)
       IN  /\ page' = page \o errs
           /\ pc' = IF errs # <<>> THEN "stopped" ELSE "download"
    /\ UNCHANGED <<north, south, east, west, G, nodes_df, edges_df,
                   simple_map_image, map_image, node_csv, edge_csv,
                   downloads, call>>

\* G = download_osm_data_safe(polygon, network_type), inside the try block.
Download ==
    /\ pc = "download"
    /\ \E o \in DownloadOutcomes(<<north, south, east, west>>) :
        LET r == download_osm_data_safe(o)
        IN  /\ G' = r.G
            /\ page' = page \o r.msgs
            /\ pc' = IF r.raised THEN "except" ELSE "check_download"
    /\ downloads' = downloads + 1
    /\ UNCHANGED <<north, south, east, west, nodes_df, edges_df,
                   simple_map_image, map_image, node_csv, edge_csv, call>>

\* if G is None: st.error(...); st.stop().  st.stop() ends the script run by
\* raising Streamlit's StopException, a BaseException that the handler's
\* `except Exception` does not catch: the run is over (pc = "stopped").
CheckDownload ==
    /\ pc = "check_download"
    /\ IF G = None
       THEN /\ page' = Append(page, "error:download_failed")
            /\ pc' = "stopped"
       ELSE /\ page' = page
            /\ pc' = "check_size"
    /\ UNCHANGED <<north, south, east, west, G, nodes_df, edges_df,
                   simple_map_image, map_image, node_csv, edge_csv,
                   downloads, call>>

\* Check data size.
CheckSize ==
    /\ pc = "check_size"
    /\ LET errs == SizeErrors(G)
       IN  /\ page' = page \o errs
           /\ pc' = IF errs # <<>> THEN "stopped" ELSE "convert"
    /\ UNCHANGED <<north, south, east, west, G, nodes_df, edges_df,
                   simple_map_image, map_image, node_csv, edge_csv,
                   downloads, call>>

\* nodes_df, edges_df = convert_to_scratch_format(G, bounds)
Convert ==
    /\ pc = "convert"
    /\ LET r == convert_to_scratch_format(G, <<north, south, east, west>>)
       IN  /\ nodes_df' = r.nodes_df
           /\ edges_df' = r.edges_df
    /\ pc' = "simple_image"
    /\ UNCHANGED <<north, south, east, west, G, simple_map_image, map_image,
                   node_csv, edge_csv, page, downloads, call>>

\* simple_map_image = generate_simple_map_image(nodes_df, edges_df)
GenerateSimpleImage ==
    /\ pc = "simple_image"
    /\ \E env \in SimpleEnvs :
        LET r == generate_simple_map_image(nodes_df, edges_df, env)
        IN  IF r.raised
            THEN /\ pc' = "except"
                 /\ UNCHANGED <<simple_map_image, page>>
            ELSE /\ simple_map_image' = r.img
                 /\ page' = page \o r.msgs
                 /\ pc' = "map_image"
    /\ UNCHANGED <<north, south, east, west, G, nodes_df, edges_df, map_image,
                   node_csv, edge_csv, downloads, call>>

\* map_image = generate_map_image_safe(nodes_df, edges_df, bounds)
GenerateMapImage ==
    /\ pc = "map_image"
    /\ \E env \in MapEnvs :
        LET r == generate_map_image_safe(nodes_df, edges_df,
                                         <<north, south, east, west>>, env)
        IN  IF r.raised
            THEN /\ pc' = "except"
                 /\ UNCHANGED <<map_image, page>>
            ELSE /\ map_image' = r.img
                 /\ page' = page \o r.msgs
                 /\ pc' = "csv"
    /\ UNCHANGED <<north, south, east, west, G, nodes_df, edges_df,
                   simple_map_image, node_csv, edge_csv, downloads, call>>

\* Generate CSV (nodes_df[[...]] raises KeyError on a table without these
\* columns) and convert the images to byte streams.
GenerateCsv ==
    /\ pc = "csv"
    /\ IF HasColumns(nodes_df, NodeCsvColumns)
       THEN /\ node_csv' = to_csv(nodes_df, NodeCsvColumns)
            /\ edge_csv' = to_csv(edges_df, edges_df.columns)
            /\ pc' = "results"
       ELSE /\ pc' = "except"
            /\ UNCHANGED <<node_csv, edge_csv>>
    /\ UNCHANGED <<north, south, east, west, G, nodes_df, edges_df,
                   simple_map_image, map_image, page, downloads, call>>

\* Display results: success message, statistics, conversion information.
ShowResults ==
    /\ pc = "results"
    /\ page' = page \o <<"success", "metrics", "info:conversion">>
    /\ pc' = "images"
    /\ UNCHANGED <<north, south, east, west, G, nodes_df, edges_df,
                   simple_map_image, map_image, node_csv, edge_csv,
                   downloads, call>>

\* Map image display: st.image of both images.
ShowImages ==
    /\ pc = "images"
    /\ page' = page \o <<"image:simple", "image:background">>
    /\ pc' = "node_preview"
    /\ UNCHANGED <<north, south, east, west, G, nodes_df, edges_df,
                   simple_map_image, map_image, node_csv, edge_csv,
                   downloads, call>>

\* Node data preview.
NodePreview ==
    /\ pc = "node_preview"
    /\ page' = page \o <<"dataframe:nodes", "text:x_distribution",
                         "text:y_distribution">>
    /\ pc' = "edge_preview"
    /\ UNCHANGED <<north, south, east, west, G, nodes_df, edges_df,
                   simple_map_image, map_image, node_csv, edge_csv,
                   downloads, call>>

\* Edge data preview: the table and the row count are written first, then
\* edges_df['Distance'] is read, which raises KeyError on a table without
\* columns.
EdgePreview ==
    /\ pc = "edge_preview"
    /\ IF HasColumn(edges_df, "Distance")
       THEN /\ page' = page \o <<"dataframe:edges", "text:edge_count",
                                 "text:average_distance", "text:total_distance">>
            /\ pc' = "downloads"
       ELSE /\ page' = page \o <<"dataframe:edges", "text:edge_count">>
            /\ pc' = "except"
    /\ UNCHANGED <<north, south, east, west, G, nodes_df, edges_df,
                   simple_map_image, map_image, node_csv, edge_csv,
                   downloads, call>>

\* Usage example and the download buttons.
OfferDownloads ==
    /\ pc = "downloads"
    /\ page' = page \o <<"code:usage", "download:node_csv", "download:edge_csv",
                         "download:simple_png", "download:background_png",
                         "download:full_node_csv">>
    /\ pc' = "done"
    /\ UNCHANGED <<north, south, east, west, G, nodes_df, edges_df,
                   simple_map_image, map_image, node_csv, edge_csv,
                   downloads, call>>

\* except Exception as e: the error, its traceback and the tips.
Except ==
    /\ pc = "except"
    /\ page' = page \o <<"error:unexpected", "traceback", "info:troubleshooting">>
    /\ pc' = "done"
    /\ UNCHANGED <<north, south, east, west, G, nodes_df, edges_df,
                   simple_map_image, map_image, node_csv, edge_csv,
                   downloads, call>>

Next ==
    \/ Press
    \/ Validate
    \/ Download
    \/ CheckDownload
    \/ CheckSize
    \/ Convert
    \/ GenerateSimpleImage
    \/ GenerateMapImage
    \/ GenerateCsv
    \/ ShowResults
    \/ ShowImages
    \/ NodePreview
    \/ EdgePreview
    \/ OfferDownloads
    \/ Except

Spec == Init /\ [][Next]_vars

-----------------------------------------------------------------------------
(* Properties of the pure functions (checked under SpecFn)                 *)

CallDone(fn) == call.fn = fn /\ call.done

\* v is num/den rounded to the nearest integer, a tie going to the even one.
Nearest(v, num, den) ==
    \/ 2 * Abs(v * den - num) < Abs(den)
    \/ 2 * Abs(v * den - num) = Abs(den) /\ v % 2 = 0

\* C1: for a box with north > south and east > west and any point, inside the
\* box or not, latlon_to_scratch returns the unclamped linear remap rounded
\* to 2 decimals (x = round2(-240 + 480*(lon - west)/(east - west)),
\* y = round2(-180 + 360*(north - lat)/(north - south))); the north-west
\* corner maps to (-240, -180), the south-east corner to (240, 180), the
\* centre to (0, 0), and a point outside the box lands outside the canvas.
C1_LinearRemap ==
    CallDone("latlon_to_scratch") =>
        LET n == call.bounds[1]
            s == call.bounds[2]
            e == call.bounds[3]
            w == call.bounds[4]
            x == call.ret[1]
            y == call.ret[2]
        IN  (n > s /\ e > w) =>
              /\ Nearest(x, 100 * (-240 * (e - w) + 480 * (call.lon - w)), e - w)
              /\ Nearest(y, 100 * (-180 * (n - s) + 360 * (n - call.lat)), n - s)
              /\ (call.lat = n /\ call.lon = w) => (x = -24000 /\ y = -18000)
              /\ (call.lat = s /\ call.lon = e) => (x = 24000 /\ y = 18000)
              /\ (2 * call.lat = n + s /\ 2 * call.lon = e + w) => (x = 0 /\ y = 0)
              /\ (call.lon > e) => x > 24000
              /\ (call.lon < w) => x < -24000
              /\ (call.lat > n) => y < -18000
              /\ (call.lat < s) => y > 18000

\* A point south-east of a valid box 7 units wide has been remapped to
\* x = 308.57 (480 * 8 / 7 - 240 = 308.5714...) and to a y below the canvas.
C1_Witness ==
    /\ CallDone("latlon_to_scratch")
    /\ call.bounds[1] > call.bounds[2]
    /\ call.bounds[3] - call.bounds[4] = 7
    /\ call.lon = call.bounds[3] + 1
    /\ call.lat < call.bounds[2]
    /\ call.ret[1] = 30857
    /\ call.ret[2] > 18000

\* C7: on a degenerate box latlon_to_scratch returns a pair of numbers (it
\* does not fail): with east = west, x = 0.0 for every lon; with
\* north = south, y = 0.0 for every lat; the other axis is still the linear
\* remap.
C7_DegenerateBox ==
    CallDone("latlon_to_scratch") =>
        LET n == call.bounds[1]
            s == call.bounds[2]
            e == call.bounds[3]
            w == call.bounds[4]
            x == call.ret[1]
            y == call.ret[2]
        IN  /\ call.ret \in Int \X Int
            /\ (e = w) => x = 0
            /\ (n = s) => y = 0
            /\ (e = w /\ n # s) =>
                 Nearest(y, 100 * (-180 * (n - s) + 360 * (n - call.lat)), n - s)
            /\ (n = s /\ e # w) =>
                 Nearest(x, 100 * (-240 * (e - w) + 480 * (call.lon - w)), e - w)

\* A zero-width box of positive height has been used for a point that is
\* not on its meridian.
C7_Witness ==
    /\ CallDone("latlon_to_scratch")
    /\ call.bounds[3] = call.bounds[4]
    /\ call.bounds[1] > call.bounds[2]
    /\ call.lon # call.bounds[4]
    /\ call.ret[1] = 0

\* Number of rows of the edge table going from sequential id a to b.
RowsFromTo(df, a, b) ==
    Cardinality({k \in 1..Len(df.rows) :
                    df.rows[k].FromID = a /\ df.rows[k].ToID = b})

\* Number of edges of the graph going from its a-th node to its b-th node.
EdgesFromTo(graph, a, b) ==
    Cardinality({k \in 1..Len(graph.edges) :
                    /\ graph.edges[k].u = graph.nodes[a].id
                    /\ graph.edges[k].v = graph.nodes[b].id})

\* C2: each undirected connection is emitted as two directed rows: for every
\* pair of distinct nodes {a, b} joined in the upstream graph (by a->b, by
\* b->a or by both, without parallel edges in one direction) the edge table
\* has exactly one row a->b and exactly one row b->a.
C2_TwoRowsPerConnection ==
    CallDone("convert_to_scratch_format") =>
        \A a, b \in 1..Len(call.G.nodes) :
            (/\ a # b
             /\ EdgesFromTo(call.G, a, b) + EdgesFromTo(call.G, b, a) >= 1
             /\ EdgesFromTo(call.G, a, b) <= 1
             /\ EdgesFromTo(call.G, b, a) <= 1)
            => /\ RowsFromTo(call.ret.edges_df, a, b) = 1
               /\ RowsFromTo(call.ret.edges_df, b, a) = 1

\* C9: a graph with E edges gives exactly 2*E edge rows; every row has a
\* reversed row with the same distance; an edge without a length attribute
\* gets distance 0 in both of its rows.
C9_TwoRowsPerEdge ==
    CallDone("convert_to_scratch_format") =>
        LET rows == call.ret.edges_df.rows
            es == call.G.edges
        IN  /\ Len(rows) = 2 * Len(es)
            /\ \A i \in 1..Len(rows) : \E j \in 1..Len(rows) :
                  /\ j # i
                  /\ rows[j].FromID = rows[i].ToID
                  /\ rows[j].ToID = rows[i].FromID
                  /\ rows[j].Distance = rows[i].Distance
            /\ \A k \in 1..Len(es) :
                  "length" \notin DOMAIN es[k].data =>
                      /\ 2 * k <= Len(rows)
                      /\ rows[2 * k - 1].Distance = 0
                      /\ rows[2 * k].Distance = 0

\* A graph with an edge that has a length and an opposite edge that has none
\* has been converted.
C9_Witness ==
    /\ CallDone("convert_to_scratch_format")
    /\ Len(call.G.edges) = 2
    /\ call.G.edges[1].u = call.G.edges[2].v
    /\ call.G.edges[1].v = call.G.edges[2].u
    /\ call.G.edges[1].u # call.G.edges[1].v
    /\ "length" \in DOMAIN call.G.edges[1].data
    /\ "length" \notin DOMAIN call.G.edges[2].data
    /\ Len(call.ret.edges_df.rows) = 4
    /\ call.ret.edges_df.rows[1].Distance = 1234

\* C11: a graph with N nodes gives exactly N node rows with the IDs 1..N,
\* the i-th row belonging to the i-th upstream node in iteration order (so
\* the map from upstream id to sequential id is a bijection); every edge
\* row's FromID and ToID is one of 1..N and is the ID of the node row of the
\* edge's endpoint, so no edge row refers to a missing node.
C11_SequentialIds ==
    CallDone("convert_to_scratch_format") =>
        LET N == Len(call.G.nodes)
            nrows == call.ret.nodes_df.rows
            erows == call.ret.edges_df.rows
        IN  /\ Len(nrows) = N
            /\ \A i \in 1..N :
                  /\ nrows[i].ID = i
                  /\ nrows[i].OSM_ID = call.G.nodes[i].id
            /\ \A i, j \in 1..N :
                  (nrows[i].OSM_ID = nrows[j].OSM_ID) => (nrows[i].ID = nrows[j].ID)
            /\ \A k \in 1..Len(erows) :
                  /\ erows[k].FromID \in 1..N
                  /\ erows[k].ToID \in 1..N
            /\ \A k \in 1..Len(call.G.edges) :
                  /\ 2 * k <= Len(erows)
                  /\ nrows[erows[2 * k - 1].FromID].OSM_ID = call.G.edges[k].u
                  /\ nrows[erows[2 * k - 1].ToID].OSM_ID = call.G.edges[k].v

\* A graph of two nodes with an edge from the second node to the first has
\* been converted: its forward row goes from ID 2 to ID 1.
C11_Witness ==
    /\ CallDone("convert_to_scratch_format")
    /\ Len(call.G.nodes) = 2
    /\ Len(call.G.edges) = 1
    /\ call.G.edges[1].u = call.G.nodes[2].id
    /\ call.G.edges[1].v = call.G.nodes[1].id
    /\ call.ret.nodes_df.rows[2].ID = 2
    /\ call.ret.edges_df.rows[1].FromID = 2
    /\ call.ret.edges_df.rows[1].ToID = 1

-----------------------------------------------------------------------------
(* Properties of the button handler (checked under Spec)                   *)

OnPage(e) == \E i \in 1..Len(page) : page[i] = e

\* The artifacts of a request, as the page shows or offers them.
ImagesShown == {e \in {"image:simple", "image:background"} : OnPage(e)}
DownloadsOffered ==
    {e \in {"download:node_csv", "download:edge_csv", "download:simple_png",
            "download:background_png", "download:full_node_csv"} : OnPage(e)}

NothingProduced ==
    /\ nodes_df = None /\ edges_df = None
    /\ simple_map_image = None /\ map_image = None
    /\ node_csv = None /\ edge_csv = None
    /\ ImagesShown = {} /\ DownloadsOffered = {}

\* C3: a press with north <= south or east <= west is rejected with an error
\* and stops there: no download is issued, nothing is converted, and no CSV
\* or image is produced or offered.
C3_InvalidBoxRejected ==
    (pc # "idle" /\ (north <= south \/ east <= west)) =>
        /\ pc \in {"validate", "stopped"}
        /\ downloads = 0 /\ G = None
        /\ NothingProduced
        /\ pc = "stopped" =>
              \/ page = <<"error:north_south">>
              \/ page = <<"error:east_west">>

\* A press with north = south and east > west has been rejected.
C3_Witness ==
    /\ pc = "stopped" /\ north = south /\ east > west
    /\ page = <<"error:north_south">>

OverLimit(graph) ==
    Len(graph.nodes) > MAX_NODES \/ Len(graph.edges) > MAX_EDGES

\* C4, as a state predicate: while the downloaded graph is over a limit the
\* run is before the size check or stopped with its error and has produced
\* nothing; a graph within the limits is never stopped by the size check.
C4_Inv ==
    G # None =>
        IF OverLimit(G)
        THEN /\ pc \in {"check_download", "check_size", "stopped"}
             /\ NothingProduced
             /\ pc = "stopped" =>
                   (OnPage("error:too_many_nodes") \/ OnPage("error:too_many_edges"))
        ELSE /\ pc # "stopped"
             /\ ~OnPage("error:too_many_nodes")
             /\ ~OnPage("error:too_many_edges")

\* C4, the step of the size check: over a limit it stops the run, otherwise
\* it hands over to the conversion.
C4_Step ==
    (pc = "check_size") =>
        (pc' = IF OverLimit(G) THEN "stopped" ELSE "convert")

\* C4: a downloaded graph with more than MAX_NODES nodes or more than
\* MAX_EDGES edges is rejected with an error before conversion (no
\* conversion, no image generation, no CSV or image); a graph with at most
\* MAX_NODES nodes and at most MAX_EDGES edges passes the check and proceeds
\* to conversion.
C4_SizeLimits == [](C4_Inv) /\ [][C4_Step]_vars

\* A graph of exactly MAX_NODES nodes and MAX_EDGES edges has been converted.
C4_Witness ==
    /\ G # None
    /\ Len(G.nodes) = MAX_NODES /\ Len(G.edges) = MAX_EDGES
    /\ nodes_df # None
    /\ Len(nodes_df.rows) = MAX_NODES

RunEnded == pc \in {"done", "stopped"}

EndedInError ==
    RunEnded /\ \E i \in 1..Len(page) :
        page[i] \in {"error:north_south", "error:east_west", "error:area",
                     "error:download_failed", "error:too_many_nodes",
                     "error:too_many_edges", "error:unexpected"}

\* C5: outputs are all-or-nothing per request: when the run has ended,
\* either both images are shown and every download is offered, or no image
\* is shown and no download is offered; and when it has ended in an error,
\* no image has been displayed and no download button emitted.
C5_AllOrNothing ==
    RunEnded =>
        /\ \/ (ImagesShown = {} /\ DownloadsOffered = {})
           \/ ({"image:simple", "image:background"} \subseteq ImagesShown
               /\ {"download:node_csv", "download:edge_csv",
                   "download:simple_png", "download:background_png"}
                      \subseteq DownloadsOffered)
        /\ EndedInError => (ImagesShown = {} /\ DownloadsOffered = {})

DownloadErrors ==
    {"error:osmnx_missing", "error:timed_out", "error:network", "error:download"}

\* C6: when the graph download fails (library missing, timeout, HTTP
\* 400/404 or any other exception) download_osm_data_safe reports an error
\* and returns None instead of raising: the run goes on to the check of G
\* and stops there, with no size check, no conversion and no output.
C6_DownloadFailure ==
    (downloads > 0 /\ G = None) =>
        /\ pc \in {"check_download", "stopped"}
        /\ \E e \in DownloadErrors : OnPage(e)
        /\ NothingProduced
        /\ ~OnPage("error:too_many_nodes") /\ ~OnPage("error:too_many_edges")
        /\ ~OnPage("error:unexpected")
        /\ pc = "stopped" => page[Len(page)] = "error:download_failed"

\* A download that failed with an exception of no special kind has stopped
\* the run.
C6_Witness ==
    /\ pc = "stopped" /\ downloads = 1 /\ G = None
    /\ OnPage("error:download")
    /\ OnPage("error:download_failed")

IsCanvasSize(img) == img.width = SCRATCH_WIDTH /\ img.height = SCRATCH_HEIGHT

\* C8: every image the two generators return is exactly 480x360 pixels on
\* every path, and neither generator raises or returns no image: once the
\* tables exist and the run is past a generator, its image exists.
C8_ImageSize ==
    /\ simple_map_image # None => IsCanvasSize(simple_map_image)
    /\ map_image # None => IsCanvasSize(map_image)
    /\ (nodes_df # None /\ pc # "simple_image") => simple_map_image # None
    /\ (simple_map_image # None /\ pc # "map_image") => map_image # None

\* The background version fell back to the simple version, which failed and
\* returned the blank image, while the simple image itself was rendered.
C8_Witness ==
    /\ map_image # None /\ simple_map_image # None
    /\ map_image.content = "blank"
    /\ simple_map_image.content = "roads"
    /\ IsCanvasSize(map_image) /\ IsCanvasSize(simple_map_image)
    /\ OnPage("warning:map_generation") /\ OnPage("error:image")

\* C10: a failed tile load is tolerated: the run still completes with both
\* CSVs and both images offered; it never rejects the request and never
\* prevents the CSV outputs.
C10_TileFailureTolerated ==
    (OnPage("warning:tiles") /\ RunEnded) =>
        /\ pc = "done"
        /\ ~OnPage("error:unexpected")
        /\ {"image:simple", "image:background"} \subseteq ImagesShown
        /\ {"download:node_csv", "download:edge_csv", "download:simple_png",
            "download:background_png"} \subseteq DownloadsOffered

GuardsPass ==
    /\ north > south /\ east > west
    /\ area_size(north, south, east, west) <= AREA_LIMIT

\* C12, as a state predicate: a run issues at most one download, and only
\* with all input guards passed; a valid box whose area exceeds the limit is
\* at the guards or stopped with the area error, with no download issued.
C12_Inv ==
    /\ downloads <= 1
    /\ downloads > 0 => GuardsPass
    /\ (pc # "idle" /\ north > south /\ east > west
        /\ area_size(north, south, east, west) > AREA_LIMIT) =>
           /\ pc \in {"validate", "stopped"}
           /\ downloads = 0 /\ G = None
           /\ pc = "stopped" => page = <<"error:area", "info:area">>

\* C12, the steps: the guards hand over to the download exactly when they
\* pass, and the download is issued once and then left behind.
C12_Step ==
    /\ (pc = "validate") =>
          (pc' = IF GuardsPass THEN "download" ELSE "stopped")
    /\ (pc = "download") => (downloads' = 1 /\ pc' # "download")
    /\ (pc \notin {"download", "idle", "done", "stopped"}) =>
          (downloads' = downloads)

====
